---------------------------- MODULE Spec2Model ----------------------------
(***************************************************************************)
(* A model of the netlink client: the wire codec of messages               *)
(* (src/proto/packet.rs), the 4-byte alignment (src/lib.rs) and the        *)
(* transaction state machine NetlinkSocket::exec (src/proto/conn.rs).      *)
(*                                                                         *)
(* Bytes are numbers 0..255 and buffers are sequences of bytes; buffer     *)
(* offsets are 0-based as in the source, so v[a..b] of the source is       *)
(* Slice(v, a, b).  The host is little-endian, the layout the tests of     *)
(* the repository pin (packet.rs test_from_one, test_header_serialize).    *)
(* A function of the source that returns io::Result returns here a record  *)
(* Ok(..) or Err(..); a Rust panic (a slice whose start exceeds its end,   *)
(* an arithmetic overflow under overflow checks, an explicit panic!) is    *)
(* the third outcome Panic.                                                *)
(***************************************************************************)
EXTENDS Integers, Sequences, FiniteSets, TLC

VARIABLES
    \* ---- NetlinkSocket (conn.rs:11-15) and one exec call in progress ----
    pc,         \* position of the session: "new", "idle", "sent", "recv",
                \* "frames", "done", "dropped"
    fd,         \* NetlinkSocket.fd
    next_seq,   \* NetlinkSocket.next_seq
    request,    \* the request message of the current exec call
    resp_typ,   \* the optional type filter: <<>> (None) or <<typ>> (Some)
    pid,        \* exec's local `pid`, the bound port id
    out,        \* exec's local `out`, the accumulated messages
    resps,      \* exec's local `resps`, what is left of the drained buffer
    ret,        \* what the last call (new or exec) returned
    \* ---- the kernel's side of the socket ----
    sock,       \* datagrams queued on the socket, oldest first
    kframes,    \* frames the kernel has sent in reply to the current request
    ksent,      \* those frames, in the order sent (a datagram that is no
                \* sequence of frames adds none)
    \* ---- history of the current exec call ----
    seen,       \* the frames the loop has examined so far, in order
    nsend,      \* send operations issued by this call
    nrecv,      \* receive operations issued by this call
    seq_log,    \* header.seq of every request put on the wire, in order
    closes,     \* close(2) calls issued on the handle
    opened,     \* the handles that socket(2) returned to bind, in order
    \* ---- the codec exercised on its own ----
    cpc,        \* "off", "build", "decode", "done"
    cwhat,      \* what cbuf is decoded as: "msg" or "attr"
    built,      \* messages built with NetlinkMessage::new and add_data
    cbuf,       \* the buffer handed to the decoder
    cidx,       \* from_bytes' local `idx`
    cres,       \* from_bytes' local `res`
    cret,       \* what from_bytes returned
    cone,       \* what the last direct one_from_bytes call returned, with its
                \* arguments
    \* ---- attributes and single calls of the other functions ----
    abuilt,     \* attributes built with RtAttr::new and add_data
    fn_call,    \* the function called last and its arguments
    fn_ret      \* what that call returned

execVars == <<pc, fd, next_seq, request, resp_typ, pid, out, resps, ret,
              sock, kframes, ksent, seen, nsend, nrecv, seq_log, closes,
              opened>>
codecVars == <<cpc, cwhat, built, cbuf, cidx, cres, cret, cone>>
utilVars == <<abuilt, fn_call, fn_ret>>
vars == <<execVars, codecVars, utilVars>>

-----------------------------------------------------------------------------
(* Results *)

NoVal == <<>>
Ok(v) == [kind |-> "Ok", err |-> "", code |-> 0, val |-> v]
Err(e) == [kind |-> "Err", err |-> e, code |-> 0, val |-> NoVal]
OsErr(c) == [kind |-> "Err", err |-> "Os", code |-> c, val |-> NoVal]
Panic == [kind |-> "Panic", err |-> "", code |-> 0, val |-> NoVal]
Pending == [kind |-> "Pending", err |-> "", code |-> 0, val |-> NoVal]

-----------------------------------------------------------------------------
(* Bytes *)

\* v[a..b] of a buffer that holds it: the bytes at 0-based offsets a .. b-1
Slice(v, a, b) == SubSeq(v, a + 1, b)

\* usize.  An offset below 2^31 is written as itself, and one within 2^31 of
\* the top of the range as the negative number it reads as in two's
\* complement (usize::MAX is -1), whatever the pointer width: a + b is then
\* the wrapped sum, usize_overflows says whether the addition carried out of
\* the range and usize_lt is the unsigned order.
usize_overflows(a, b) ==
    \/ a < 0 /\ b < 0
    \/ (a < 0) # (b < 0) /\ a + b >= 0

usize_lt(a, b) == IF (a < 0) = (b < 0) THEN a < b ELSE b < 0

\* Whether Rust accepts the range a..b on a buffer of this length; it panics
\* otherwise
SliceOk(v, a, b) == ~usize_lt(b, a) /\ ~usize_lt(Len(v), b)

Zeroes(n) == [i \in 1..n |-> 0]

\* a 16-bit and a 32-bit field as the host lays them out in memory
U16Bytes(n) == <<n % 256, (n \div 256) % 256>>
U32Bytes(n) == <<n % 256, (n \div 256) % 256, (n \div 65536) % 256,
                 (n \div 16777216) % 256>>
U16Of(b) == b[1] + 256 * b[2]
U32Of(b) == b[1] + 256 * b[2] + 65536 * b[3] + 16777216 * b[4]

\* the 32-bit field read as u32 and cast `as i32` (two's complement)
I32Of(b) == b[1] + 256 * b[2] + 65536 * b[3]
              + 16777216 * (IF b[4] >= 128 THEN b[4] - 256 ELSE b[4])

-----------------------------------------------------------------------------
(* util::align, lib.rs:35-39 *)

RTA_ALIGNTO == 4

\* (a variant of align that clears the low bits without adding first)
align_down(len) == len - (len % RTA_ALIGNTO)

\* x & !(RTA_ALIGNTO - 1) clears the bits below RTA_ALIGNTO
align(len) ==
    LET x == len + RTA_ALIGNTO - 1
    IN  x - (x % RTA_ALIGNTO)


-----------------------------------------------------------------------------
(* NetlinkHeader and NetlinkMessage, proto/packet.rs *)

\* NetlinkHeader::size: the #[repr(C)] record u32, u16, u16, u32, u32
NetlinkHeader_size == 16

IsErr(r, e) == r.kind = "Err" /\ r.err = e

\* NetlinkHeader::from_bytes, packet.rs:19-29: the first 16 bytes overlaid
\* with the record
NetlinkHeader_from_bytes(v) ==
    IF Len(v) < NetlinkHeader_size
    THEN Err("UnexpectedEof")
    ELSE Ok([len   |-> U32Of(Slice(v, 0, 4)),
             typ   |-> U16Of(Slice(v, 4, 6)),
             flags |-> U16Of(Slice(v, 6, 8)),
             seq   |-> U32Of(Slice(v, 8, 12)),
             pid   |-> U32Of(Slice(v, 12, 16))])

\* (a variant of to_bytes that lays flags out before typ)
to_bytes_flags_first(h) ==
    IF h.len < NetlinkHeader_size
    THEN Panic
    ELSE Ok(U32Bytes(h.len) \o U16Bytes(h.flags) \o U16Bytes(h.typ)
              \o U32Bytes(h.seq) \o U32Bytes(h.pid))

\* Serializable for NetlinkHeader, packet.rs:37-51
NetlinkHeader_to_bytes(h) ==
    IF h.len < NetlinkHeader_size
    THEN Panic
    ELSE Ok(U32Bytes(h.len) \o U16Bytes(h.typ) \o U16Bytes(h.flags)
              \o U32Bytes(h.seq) \o U32Bytes(h.pid))

\* NetlinkMessage::new, packet.rs:72-83
NetlinkMessage_new(typ, flags) ==
    [header |-> [len |-> NetlinkHeader_size, typ |-> typ, flags |-> flags,
                 seq |-> 0, pid |-> 0],
     data |-> <<>>]

\* NetlinkMessage::one_from_bytes, packet.rs:100-124
\* (`idx + size` panics where it overflows in a build with overflow checks and
\* wraps in one without)
NetlinkMessage_one_from_bytes(v, idx, overflow_checks) ==
    IF overflow_checks /\ usize_overflows(idx, NetlinkHeader_size)
    THEN Panic
    ELSE IF usize_lt(Len(v), idx + NetlinkHeader_size)
    THEN Err("UnexpectedEof")
    ELSE IF ~SliceOk(v, idx, idx + NetlinkHeader_size)
    THEN Panic
    ELSE LET hdr == NetlinkHeader_from_bytes(
                        Slice(v, idx, idx + NetlinkHeader_size))
             header_len == hdr.val.len
         IN  IF hdr.kind # "Ok" THEN hdr
             ELSE IF overflow_checks /\ usize_overflows(idx, header_len)
                  THEN Panic
             ELSE IF usize_lt(Len(v), idx + header_len)
                  THEN Err("UnexpectedEof")
             ELSE IF ~SliceOk(v, idx + NetlinkHeader_size, idx + header_len)
                  THEN Panic
             ELSE Ok([header |-> hdr.val,
                      data |-> Slice(v, idx + NetlinkHeader_size,
                                     idx + header_len)])

\* (a variant of the turn of from_bytes that does not add the length of the
\* message to the offset)
from_bytes_turn_stays(v, idx, res, overflow_checks) ==
    IF ~(idx < Len(v))
    THEN [ret |-> Ok(res), idx |-> idx, res |-> res]
    ELSE LET msg == NetlinkMessage_one_from_bytes(v, idx, overflow_checks)
         IN  IF msg.kind # "Ok"
             THEN [ret |-> msg, idx |-> idx, res |-> res]
             ELSE [ret |-> Pending,
                   idx |-> align(idx),
                   res |-> Append(res, msg.val)]

\* One turn of the loop of NetlinkMessage::from_bytes, packet.rs:90-97, from
\* the locals idx and res: the call's result when this turn ends it (Pending
\* when the loop goes on) and the locals after the turn
from_bytes_turn(v, idx, res, overflow_checks) ==
    IF ~(idx < Len(v))
    THEN [ret |-> Ok(res), idx |-> idx, res |-> res]
    ELSE LET msg == NetlinkMessage_one_from_bytes(v, idx, overflow_checks)
         IN  IF msg.kind # "Ok"
             THEN [ret |-> msg, idx |-> idx, res |-> res]
             ELSE [ret |-> Pending,
                   idx |-> align(idx + msg.val.header.len),
                   res |-> Append(res, msg.val)]

RECURSIVE from_bytes_loop(_, _, _, _)
from_bytes_loop(v, idx, res, overflow_checks) ==
    LET t == from_bytes_turn(v, idx, res, overflow_checks)
    IN  IF t.ret.kind # "Pending" THEN t.ret
        ELSE from_bytes_loop(v, t.idx, t.res, overflow_checks)

\* NetlinkMessage::from_bytes, packet.rs:85-98
NetlinkMessage_from_bytes(v, overflow_checks) ==
    from_bytes_loop(v, 0, <<>>, overflow_checks)

\* (a variant of add_data that counts the padding but does not push it)
add_data_no_padding(m, d) ==
    LET l == Len(d)
        aligned_len == align(l)
    IN  [header |-> [m.header EXCEPT !.len = @ + aligned_len],
         data |-> m.data \o d]

\* (a variant of add_data that adds the unpadded length to the header)
add_data_unpadded_len(m, d) ==
    LET l == Len(d)
        aligned_len == align(l)
        padding == aligned_len - l
    IN  [header |-> [m.header EXCEPT !.len = @ + l],
         data |-> m.data \o d \o Zeroes(padding)]

\* NetlinkMessage::add_data, packet.rs:129-140
NetlinkMessage_add_data(m, d) ==
    LET l == Len(d)
        aligned_len == align(l)
        padding == aligned_len - l
    IN  [header |-> [m.header EXCEPT !.len = @ + aligned_len],
         data |-> m.data \o d \o Zeroes(padding)]

\* Serializable for NetlinkMessage, packet.rs:144-148
NetlinkMessage_to_bytes(m) ==
    LET h == NetlinkHeader_to_bytes(m.header)
    IN  IF h.kind # "Ok" THEN h ELSE Ok(h.val \o m.data)

-----------------------------------------------------------------------------
(* RtAttr, type_route/rtattr.rs *)

\* RtAttrHeader::size, rtattr.rs:22-24
RtAttrHeader_size == 4

\* RtAttrHeader::from_bytes, rtattr.rs:30-39
RtAttrHeader_from_bytes(v) ==
    IF Len(v) < RtAttrHeader_size
    THEN Err("UnexpectedEof")
    ELSE Ok([len |-> U16Of(Slice(v, 0, 2)), typ |-> U16Of(Slice(v, 2, 4))])

\* RtAttrHeader::data_size, rtattr.rs:26-28 (every attribute that new,
\* add_data or a decoder returns has a len of at least 4)
RtAttrHeader_data_size(h) == h.len - 4

\* RtAttr::new, rtattr.rs:47-55; `data.len() as u16` keeps the low 16 bits
\* (the values the model builds leave the sum far below 2^16)
RtAttr_new(typ, data) ==
    [header |-> [len |-> 4 + (Len(data) % 65536), typ |-> typ],
     data |-> data]

\* (a variant of RtAttr::add_data that adds the unpadded length to the header)
attr_add_data_unpadded_len(a, d) ==
    LET l == Len(d)
        aligned_len == align(l)
        padding == aligned_len - l
    IN  [header |-> [a.header EXCEPT !.len = @ + l],
         data |-> a.data \o d \o Zeroes(padding)]

\* RtAttr::add_data, rtattr.rs:57-68, on the bytes `data.to_bytes()`
RtAttr_add_data(a, d) ==
    LET l == Len(d)
        aligned_len == align(l)
        padding == aligned_len - l
    IN  [header |-> [a.header EXCEPT !.len = @ + aligned_len],
         data |-> a.data \o d \o Zeroes(padding)]

\* (a variant of as_u32 that asks for no more than as_u16 does)
as_u32_short_check(a) ==
    IF RtAttrHeader_data_size(a.header) < 2
    THEN Err("InvalidData")
    ELSE IF ~SliceOk(a.data, 0, 4) THEN Panic
    ELSE Ok(U32Of(Slice(a.data, 0, 4)))

\* RtAttr::as_u32, rtattr.rs:74-82
RtAttr_as_u32(a) ==
    IF RtAttrHeader_data_size(a.header) < 4
    THEN Err("InvalidData")
    ELSE IF ~SliceOk(a.data, 0, 4) THEN Panic
    ELSE Ok(U32Of(Slice(a.data, 0, 4)))

\* RtAttr::as_u16, rtattr.rs:84-92
RtAttr_as_u16(a) ==
    IF RtAttrHeader_data_size(a.header) < 2
    THEN Err("InvalidData")
    ELSE IF ~SliceOk(a.data, 0, 2) THEN Panic
    ELSE Ok(U16Of(Slice(a.data, 0, 2)))

\* RtAttr::as_bool, rtattr.rs:94-99
RtAttr_as_bool(a) ==
    IF RtAttrHeader_data_size(a.header) = 0
    THEN Err("InvalidData")
    ELSE IF Len(a.data) = 0 THEN Panic
    ELSE Ok(a.data[1] = 1)

\* CStr::from_bytes_with_nul as RtAttr::to_cstring uses it, rtattr.rs:102:
\* the bytes must end in a zero byte and hold no other
from_bytes_with_nul_ok(data) ==
    /\ Len(data) > 0
    /\ data[Len(data)] = 0
    /\ \A i \in 1..(Len(data) - 1) : data[i] # 0

\* RtAttr::to_cstring, rtattr.rs:101-107: the text without its terminator
RtAttr_to_cstring(a) ==
    IF from_bytes_with_nul_ok(a.data)
    THEN Ok(SubSeq(a.data, 1, Len(a.data) - 1))
    ELSE Err("InvalidData")

\* Serializable for RtAttr, rtattr.rs:150-163
RtAttr_to_bytes(a) ==
    U16Bytes(a.header.len) \o U16Bytes(a.header.typ) \o a.data

\* RtAttr::one_from_bytes, rtattr.rs:109-132
\* (`idx + size` panics where it overflows in a build with overflow checks and
\* wraps in one without)
RtAttr_one_from_bytes(v, idx, overflow_checks) ==
    IF overflow_checks /\ usize_overflows(idx, RtAttrHeader_size)
    THEN Panic
    ELSE IF usize_lt(Len(v), idx + RtAttrHeader_size)
    THEN Err("UnexpectedEof")
    ELSE IF ~SliceOk(v, idx, idx + RtAttrHeader_size)
    THEN Panic
    ELSE LET hdr == RtAttrHeader_from_bytes(
                        Slice(v, idx, idx + RtAttrHeader_size))
             header_len == hdr.val.len
         IN  IF hdr.kind # "Ok" THEN hdr
             ELSE IF overflow_checks /\ usize_overflows(idx, header_len)
                  THEN Panic
             ELSE IF usize_lt(Len(v), idx + header_len)
                  THEN Err("UnexpectedEof")
             ELSE IF ~SliceOk(v, idx + RtAttrHeader_size, idx + header_len)
                  THEN Panic
             ELSE Ok([header |-> hdr.val,
                      data |-> Slice(v, idx + RtAttrHeader_size,
                                     idx + header_len)])

\* One turn of the loop of RtAttr::from_bytes, rtattr.rs:139-144
RtAttr_from_bytes_turn(v, idx, res, overflow_checks) ==
    IF ~(idx < Len(v))
    THEN [ret |-> Ok(res), idx |-> idx, res |-> res]
    ELSE LET msg == RtAttr_one_from_bytes(v, idx, overflow_checks)
         IN  IF msg.kind # "Ok"
             THEN [ret |-> msg, idx |-> idx, res |-> res]
             ELSE [ret |-> Pending,
                   idx |-> align(idx + msg.val.header.len),
                   res |-> Append(res, msg.val)]

RECURSIVE RtAttr_from_bytes_loop(_, _, _, _)
RtAttr_from_bytes_loop(v, idx, res, overflow_checks) ==
    LET t == RtAttr_from_bytes_turn(v, idx, res, overflow_checks)
    IN  IF t.ret.kind # "Pending" THEN t.ret
        ELSE RtAttr_from_bytes_loop(v, t.idx, t.res, overflow_checks)

\* RtAttr::from_bytes, rtattr.rs:134-147
RtAttr_from_bytes(v, overflow_checks) ==
    RtAttr_from_bytes_loop(v, 0, <<>>, overflow_checks)

-----------------------------------------------------------------------------
(* Protocol constants the code reads from libc and uapi *)

NLMSG_ERROR == 2
NLMSG_DONE == 3
NLM_F_MULTI == 2
NLM_F_REQUEST == 1
NLM_F_ACK == 4
NLM_F_DUMP == 768
RTM_NEWLINK == 16
RTM_GETLINK == 18
RECEIVE_BUFFER_SIZE == 65536

\* Serializable for IfInfoMsg, type_route/ifinfo.rs:48-57: family, _pad, typ,
\* index, flags, change as the #[repr(C)] record lays them out
IfInfoMsg_to_bytes(m) ==
    <<m.family, 0>> \o U16Bytes(m.typ) \o U32Bytes(m.index)
        \o U32Bytes(m.flags) \o U32Bytes(m.change)

IfInfoMsg_default == [family |-> 0, typ |-> 0, index |-> 0, flags |-> 0,
                      change |-> 0]

\* The request link_list builds, hl/iface/mod.rs:170-180
link_list_request ==
    NetlinkMessage_add_data(
        NetlinkMessage_new(RTM_GETLINK, NLM_F_DUMP + NLM_F_REQUEST),
        IfInfoMsg_to_bytes(IfInfoMsg_default))

\* The request link_get_by_index builds, hl/iface/mod.rs:192-203
link_get_by_index_request(idx) ==
    NetlinkMessage_add_data(
        NetlinkMessage_new(RTM_GETLINK, NLM_F_ACK + NLM_F_REQUEST),
        IfInfoMsg_to_bytes([IfInfoMsg_default EXCEPT !.index = idx]))

-----------------------------------------------------------------------------
(* hl/iface: the link record built from a message *)

\* the attribute type codes of uapi that hl/iface/mod.rs matches on
IFLA_ADDRESS == 1
IFLA_IFNAME == 3
IFLA_MTU == 4
IFLA_LINK == 5
IFLA_MASTER == 10
IFLA_TXQLEN == 13
IFLA_LINKINFO == 18
IFLA_IFALIAS == 20
IFLA_INFO_KIND == 1
IFLA_BR_VLAN_FILTERING == 7
IFLA_VLAN_ID == 1

\* the kind texts LinkType::from_attrs matches on, mod.rs:65-95, as bytes:
\* "bridge", "dummy", "veth", "vlan"
KindBridge == <<98, 114, 105, 100, 103, 101>>
KindDummy == <<100, 117, 109, 109, 121>>
KindVeth == <<118, 101, 116, 104>>
KindVlan == <<118, 108, 97, 110>>

\* Option<T>: None is the empty sequence, Some(x) the sequence of x
None == <<>>
Some(x) == <<x>>

\* IfInfoMsg::from_bytes, type_route/ifinfo.rs:19-31
IfInfoMsg_size == 16
IfInfoMsg_from_bytes(v) ==
    IF Len(v) < IfInfoMsg_size
    THEN Err("UnexpectedEof")
    ELSE Ok([family |-> v[1],
             typ |-> U16Of(Slice(v, 2, 4)),
             index |-> I32Of(Slice(v, 4, 8)),
             flags |-> U32Of(Slice(v, 8, 12)),
             change |-> U32Of(Slice(v, 12, 16))])

\* IfFlags::from_bits_truncate, ifflags.rs:3-44: the flags are the bits
\* 0x1 .. 0x40000, all others are dropped
IfFlags_from_bits_truncate(bits) == bits % 524288

\* the loop over the vlan or bridge attributes, mod.rs:68-76 and 86-91: the
\* attribute of type typ sets the field to Some(get(attr).unwrap())
RECURSIVE kind_attrs_loop(_, _, _, _, _)
kind_attrs_loop(rt_attrs, i, typ, get, field) ==
    IF i > Len(rt_attrs) THEN Ok(field)
    ELSE IF rt_attrs[i].header.typ = typ
    THEN LET r == IF get = "as_bool" THEN RtAttr_as_bool(rt_attrs[i])
                  ELSE RtAttr_as_u16(rt_attrs[i])
         IN  IF r.kind # "Ok" THEN Panic
             ELSE kind_attrs_loop(rt_attrs, i + 1, typ, get, Some(r.val))
    ELSE kind_attrs_loop(rt_attrs, i + 1, typ, get, field)

\* LinkType::from_attrs, mod.rs:62-101
LinkType_from_attrs(kind, rt_attrs) ==
    IF kind = KindBridge
    THEN LET b == kind_attrs_loop(rt_attrs, 1, IFLA_BR_VLAN_FILTERING,
                                  "as_bool", None)
         IN  IF b.kind # "Ok" THEN b
             ELSE Ok([tag |-> "Bridge", vlan_filtering |-> b.val])
    ELSE IF kind = KindDummy THEN Ok([tag |-> "Dummy"])
    ELSE IF kind = KindVeth THEN Ok([tag |-> "Veth", peer_name |-> None])
    ELSE IF kind = KindVlan
    THEN LET v == kind_attrs_loop(rt_attrs, 1, IFLA_VLAN_ID, "as_u16", None)
         IN  IF v.kind # "Ok" THEN v
             ELSE Ok([tag |-> "Vlan", vlan_id |-> v.val])
    ELSE Ok([tag |-> "Unknown"])

\* LinkMsg { index, flags, flags_change: empty, ..Default::default() },
\* mod.rs:128-133 with the fields of mod.rs:27-44
LinkMsg_new(info) ==
    [index |-> info.index,
     flags |-> IfFlags_from_bits_truncate(info.flags),
     flags_change |-> 0,
     mtu |-> None, tx_q_len |-> None, name |-> None, hadrware_addr |-> None,
     parent_index |-> None, alias |-> None, promisc |-> None, kind |-> None,
     master_index |-> None,
     specific |-> [tag |-> "Unknown"]]

\* `out.field = Some(r.unwrap())`
set_unwrapped(link, field, r) ==
    IF r.kind # "Ok" THEN Panic ELSE Ok([link EXCEPT ![field] = Some(r.val)])

\* the loop over the link-info attributes, mod.rs:150-159
RECURSIVE info_attrs_loop(_, _, _)
info_attrs_loop(info_attrs, i, link) ==
    IF i > Len(info_attrs) THEN Ok(link)
    ELSE LET info_attr == info_attrs[i]
             r == IF info_attr.header.typ = IFLA_INFO_KIND
                  THEN set_unwrapped(link, "kind",
                                     RtAttr_to_cstring(info_attr))
                  ELSE Ok(link)
         IN  IF r.kind # "Ok" THEN r
             ELSE info_attrs_loop(info_attrs, i + 1, r.val)

\* one turn of the loop of LinkMsg::from_attrs, mod.rs:138-161
link_attr(rt_attr, link, overflow_checks) ==
    LET typ == rt_attr.header.typ
    IN  CASE typ = IFLA_MTU ->
               set_unwrapped(link, "mtu", RtAttr_as_u32(rt_attr))
          [] typ = IFLA_IFNAME ->
               set_unwrapped(link, "name", RtAttr_to_cstring(rt_attr))
          [] typ = IFLA_TXQLEN ->
               set_unwrapped(link, "tx_q_len", RtAttr_as_u32(rt_attr))
          [] typ = IFLA_ADDRESS ->
               Ok([link EXCEPT !.hadrware_addr = Some(rt_attr.data)])
          [] typ = IFLA_LINK ->
               set_unwrapped(link, "parent_index", RtAttr_as_u32(rt_attr))
          [] typ = IFLA_MASTER ->
               set_unwrapped(link, "master_index", RtAttr_as_u32(rt_attr))
          [] typ = IFLA_IFALIAS ->
               set_unwrapped(link, "alias", RtAttr_to_cstring(rt_attr))
          [] typ = IFLA_LINKINFO ->
               LET info_attrs == RtAttr_from_bytes(rt_attr.data,
                                                   overflow_checks)
               IN  IF info_attrs.kind # "Ok" THEN info_attrs
                   ELSE info_attrs_loop(info_attrs.val, 1, link)
          [] OTHER -> Ok(link)

RECURSIVE from_attrs_loop(_, _, _, _)
from_attrs_loop(rt_attrs, i, link, overflow_checks) ==
    IF i > Len(rt_attrs) THEN Ok(link)
    ELSE LET r == link_attr(rt_attrs[i], link, overflow_checks)
         IN  IF r.kind # "Ok" THEN r
             ELSE from_attrs_loop(rt_attrs, i + 1, r.val, overflow_checks)

\* LinkMsg::from_attrs, mod.rs:127-166
LinkMsg_from_attrs(info, rt_attrs, overflow_checks) ==
    from_attrs_loop(rt_attrs, 1, LinkMsg_new(info), overflow_checks)

\* LinkMsg::from_message, mod.rs:120-126
LinkMsg_from_message(nlmsg, overflow_checks) ==
    LET ifinfo == IfInfoMsg_from_bytes(nlmsg.data)
    IN  IF ifinfo.kind # "Ok" THEN ifinfo
        ELSE LET attrs == RtAttr_from_bytes(
                              Slice(nlmsg.data, IfInfoMsg_size,
                                    Len(nlmsg.data)),
                              overflow_checks)
             IN  IF attrs.kind # "Ok" THEN attrs
                 ELSE LinkMsg_from_attrs(ifinfo.val, attrs.val,
                                         overflow_checks)

-----------------------------------------------------------------------------
(* Bounds and the inputs drawn from them *)

\* exec calls on one session
MaxExec == 2
\* frames the kernel sends in reply to one request
MaxFrames == 4
\* the port id the kernel assigns to the socket when it is bound
PortId == 4097
\* a message type that is neither reserved nor the one callers filter on
OtherTyp == 20
\* the interface index link_get_by_index is called with
LinkIndex == 1

\* what socket(2) returns on success
SockFds == {0, 3}
\* what Error::last_os_error() carries after a failed system call
LastOsErrors == {105}

\* exec's arguments, the request and the type filter: as link_list and
\* link_get_by_index pass them, mod.rs:180 and mod.rs:203, and as a caller
\* passes them who wants every type (`None`)
ExecCalls ==
    { [req |-> link_list_request, filter |-> <<RTM_NEWLINK>>],
      [req |-> link_get_by_index_request(LinkIndex),
       filter |-> <<RTM_NEWLINK>>],
      [req |-> link_get_by_index_request(LinkIndex), filter |-> <<>>] }

\* the leading payload bytes of an ack/error frame: the codes 0, -2, 5 and
\* the minimum i32, and a payload too short to hold a code
ErrnoPayloads ==
    { <<0, 0, 0, 0>>, <<254, 255, 255, 255>>, <<5, 0, 0, 0>>,
      <<0, 0, 0, 128>>, <<0, 0>> }

Frame(typ, flags, seq, p, data) ==
    [header |-> [len |-> NetlinkHeader_size + Len(data), typ |-> typ,
                 flags |-> flags, seq |-> seq, pid |-> p],
     data |-> data]

\* Frames that answer request s on port p: the parts of a multipart reply,
MultiFrames(s, p) ==
    { Frame(t, NLM_F_MULTI, s, p, <<>>) : t \in {RTM_NEWLINK, OtherTyp} }

\* and the frames that close a reply: an ack or an error, the terminator of a
\* dump, a message that is a reply by itself
ClosingFrames(s, p) ==
    { Frame(NLMSG_ERROR, 0, s, p, e) : e \in ErrnoPayloads }
    \cup { Frame(NLMSG_DONE, NLM_F_MULTI, s, p, <<0, 0, 0, 0>>) }
    \cup { Frame(t, 0, s, p, <<>>) : t \in {RTM_NEWLINK, OtherTyp} }

\* frames of every kind that carry another sequence number or another port
StrayFrames(s, p) ==
    UNION { { Frame(t, NLM_F_MULTI, s + 1, p, <<0, 0, 0, 0>>),
              Frame(t, NLM_F_MULTI, s, p + 1, <<0, 0, 0, 0>>) } :
            t \in {NLMSG_ERROR, NLMSG_DONE, RTM_NEWLINK, OtherTyp} }
    \cup { Frame(RTM_NEWLINK, 0, s + 1, p + 1, <<>>) }

\* what a datagram may still carry after the frame that closed the reply: a
\* further part, or a frame of another request
ExtraFrames(s, p) ==
    { Frame(RTM_NEWLINK, NLM_F_MULTI, s, p, <<>>),
      Frame(RTM_NEWLINK, NLM_F_MULTI, s + 1, p, <<0, 0, 0, 0>>) }

\* a frame as the kernel lays it out in a datagram: the header, the payload
\* and the padding up to the alignment
FrameBytes(f) ==
    U32Bytes(f.header.len) \o U16Bytes(f.header.typ)
        \o U16Bytes(f.header.flags) \o U32Bytes(f.header.seq)
        \o U32Bytes(f.header.pid) \o f.data
        \o Zeroes(align(Len(f.data)) - Len(f.data))

RECURSIVE Concat(_)
Concat(ss) == IF ss = <<>> THEN <<>> ELSE Head(ss) \o Concat(Tail(ss))

DatagramOf(fs) == Concat([i \in 1..Len(fs) |-> FrameBytes(fs[i])])

\* datagrams no well-behaved kernel sends: one shorter than a header, one cut
\* inside its payload, one whose header declares less than a header
BrokenDatagrams(s, p) ==
    { Zeroes(8),
      SubSeq(FrameBytes(Frame(NLMSG_DONE, NLM_F_MULTI, s, p, <<0, 0, 0, 0>>)),
             1, 18),
      U32Bytes(8) \o SubSeq(FrameBytes(Frame(RTM_NEWLINK, 0, s, p, <<>>)),
                            5, 16) }

-----------------------------------------------------------------------------
(* NetlinkSocket, proto/conn.rs *)

I32_MIN == -2147483647 - 1

\* no exec call is in progress
NoRequest == NetlinkMessage_new(0, 0)

\* flags & bit for a one-bit mask
HasFlag(flags, bit) == (flags \div bit) % 2 = 1

\* (a variant of seq_mismatch that lets every sequence number pass)
seq_mismatch_off(resp, req_seq) == FALSE

\* `resp.header.seq != request.header.seq`, conn.rs:165
seq_mismatch(resp, req_seq) == resp.header.seq # req_seq

\* (a variant of the port-id check that lets every frame pass)
pid_mismatch_off(resp, p) == FALSE

\* `resp.header.pid != pid`, conn.rs:171
pid_mismatch(resp, p) == resp.header.pid # p

\* (a variant of is_error that compares with the wrong reserved type)
is_error_as_done(resp) == resp.header.typ = NLMSG_DONE

\* `(resp.header.typ as i32) == libc::NLMSG_ERROR`, conn.rs:180
is_error(resp) == resp.header.typ = NLMSG_ERROR

\* (a variant of is_done that never sees the dump-terminator)
is_done_missed(resp) == FALSE

\* `(resp.header.typ as i32) == libc::NLMSG_DONE`, conn.rs:198
is_done(resp) == resp.header.typ = NLMSG_DONE

\* (a variant of type_skipped that skips nothing)
type_skipped_never(resp, filter) == FALSE

\* the `match resp_typ` that skips a response, conn.rs:204-211
type_skipped(resp, filter) == filter # <<>> /\ resp.header.typ # filter[1]

\* (a variant of not_multi that binds as `respflags & (NLM_F_MULTI == 0)`)
not_multi_c_precedence(respflags) == FALSE

\* `(respflags as i32) & libc::NLM_F_MULTI == 0`, conn.rs:219
not_multi(respflags) == ~HasFlag(respflags, NLM_F_MULTI)

\* `read_u32::<NativeEndian>()` of the payload, conn.rs:189-190, read as the
\* i32 the code casts it to
read_errno(data) == I32Of(Slice(data, 0, 4))

\* `Err(Error::from_raw_os_error(-(errno as i32)))`, conn.rs:194: the negation
\* of the minimum i32 traps where the build checks overflow and wraps to
\* itself where it does not
errno_failure(errno, overflow_checks) ==
    IF errno = I32_MIN
    THEN IF overflow_checks THEN Panic ELSE OsErr(I32_MIN)
    ELSE OsErr(-errno)

\* The body of exec's `for resp in resps.drain(0..)`, conn.rs:162-221, for one
\* response: what exec returns if this response ends it (Pending when the
\* loop goes on) and `out` afterwards.
exec_frame(resp, req_seq, p, filter, acc, overflow_checks) ==
    IF seq_mismatch(resp, req_seq)
    THEN [ret |-> Err("InvalidData"), out |-> acc]
    ELSE IF pid_mismatch(resp, p)
    THEN [ret |-> Err("Other"), out |-> acc]
    ELSE IF is_error(resp)
    THEN IF Len(resp.data) < 4
         THEN [ret |-> Err("UnexpectedEof"), out |-> acc]
         ELSE LET errno == read_errno(resp.data)
              IN  IF errno = 0
                  THEN [ret |-> Ok(acc), out |-> acc]
                  ELSE [ret |-> errno_failure(errno, overflow_checks),
                        out |-> acc]
    ELSE IF is_done(resp)
    THEN [ret |-> Ok(acc), out |-> acc]
    ELSE IF type_skipped(resp, filter)
    THEN [ret |-> Pending, out |-> acc]
    ELSE LET pushed == Append(acc, resp)
         IN  IF not_multi(resp.header.flags)
             THEN [ret |-> Ok(pushed), out |-> pushed]
             ELSE [ret |-> Pending, out |-> pushed]

\* (a variant of recv's decoding that takes a datagram shorter than a header
\* for an empty one)
recv_decode_skips_short(buf, overflow_checks) ==
    IF Len(buf) < NetlinkHeader_size
    THEN Ok(<<>>)
    ELSE NetlinkMessage_from_bytes(buf, overflow_checks)

\* NetlinkSocket::recv after the read, conn.rs:123-139, on the bytes the read
\* left in the buffer
recv_decode(buf, overflow_checks) ==
    IF Len(buf) < NetlinkHeader_size
    THEN Err("UnexpectedEof")
    ELSE NetlinkMessage_from_bytes(buf, overflow_checks)

\* what libc::recv leaves in a buffer of RECEIVE_BUFFER_SIZE bytes,
\* conn.rs:110-122: the datagram, cut to the size of the buffer
recv_read(d) ==
    IF Len(d) > RECEIVE_BUFFER_SIZE THEN SubSeq(d, 1, RECEIVE_BUFFER_SIZE)
    ELSE d

\* (a variant of seq_after that leaves the counter as it is)
seq_after_same(n) == n

\* `self.next_seq += 1`, conn.rs:149
seq_after(n) == n + 1

\* NetlinkSocket::new, conn.rs:18-26, with bind, conn.rs:56-83: socket(2)
\* returns sock (negative on failure), bind(2) succeeds or not.  On failure
\* the session built by new is dropped at once (Drop, conn.rs:227-233).
New(sockfd, bind_ok, e) ==
    /\ pc = "new"
    /\ IF sockfd < 0
       THEN /\ ret' = OsErr(e)
            /\ pc' = "dropped"
            /\ UNCHANGED <<fd, closes, opened>>
       ELSE IF bind_ok
       THEN /\ ret' = Ok(NoVal)
            /\ pc' = "idle"
            /\ fd' = sockfd
            /\ opened' = Append(opened, sockfd)
            /\ UNCHANGED closes
       ELSE /\ ret' = OsErr(e)
            /\ pc' = "dropped"
            /\ fd' = 0
            /\ opened' = Append(opened, sockfd)
            /\ closes' = IF sockfd > 0 THEN closes + 1 ELSE closes
    /\ UNCHANGED <<next_seq, request, resp_typ, pid, out, resps, sock,
                   kframes, ksent, seen, nsend, nrecv, seq_log, codecVars, utilVars>>

\* exec up to and including send, conn.rs:148-153
ExecSend(call, send_ok, e) ==
    /\ pc = "idle"
    /\ next_seq < MaxExec
    /\ LET req == [call.req EXCEPT !.header.seq = next_seq]
           b == NetlinkMessage_to_bytes(req)
       IN  /\ request' = req
           /\ next_seq' = seq_after(next_seq)
           /\ resp_typ' = call.filter
           /\ IF b.kind # "Ok"
              THEN /\ ret' = b
                   /\ pc' = "done"
                   /\ UNCHANGED <<nsend, seq_log>>
              ELSE /\ nsend' = nsend + 1
                   /\ seq_log' = Append(seq_log,
                                   NetlinkHeader_from_bytes(b.val).val.seq)
                   /\ ret' = IF send_ok THEN Pending ELSE OsErr(e)
                   /\ pc' = IF send_ok THEN "sent" ELSE "done"
    /\ kframes' = 0
    /\ ksent' = <<>>
    /\ UNCHANGED <<fd, pid, out, resps, sock, seen, nrecv, closes, opened,
                   codecVars, utilVars>>

\* `let pid = self.pid()?`, conn.rs:156 with pid, conn.rs:37-54
ExecPid(getsockname_ok, e) ==
    /\ pc = "sent"
    /\ IF fd <= 0
       THEN /\ ret' = Err("NotConnected")
            /\ pc' = "done"
            /\ UNCHANGED pid
       ELSE IF ~getsockname_ok
       THEN /\ ret' = OsErr(e)
            /\ pc' = "done"
            /\ UNCHANGED pid
       ELSE /\ pid' = PortId
            /\ pc' = "recv"
            /\ UNCHANGED ret
    /\ UNCHANGED <<fd, next_seq, request, resp_typ, out, resps, sock,
                   kframes, ksent, seen, nsend, nrecv, seq_log, closes, opened,
                   codecVars, utilVars>>

\* The kernel queues a datagram while exec waits in recv and nothing is
\* queued: here one of k parts of a multipart reply
KernelSend ==
    /\ pc = "recv"
    /\ sock = <<>>
    /\ \E k \in 1..(MaxFrames - kframes) :
          \E fs \in [1..k -> MultiFrames(request.header.seq, PortId)] :
              /\ sock' = <<DatagramOf(fs)>>
              /\ kframes' = kframes + k
              /\ ksent' = ksent \o fs
    /\ UNCHANGED <<pc, fd, next_seq, request, resp_typ, pid, out, resps, ret,
                   seen, nsend, nrecv, seq_log, closes, opened,
                   codecVars, utilVars>>

\* The same, the datagram ending in a frame that closes the reply, or in a
\* frame that carries another sequence number or another port id
KernelSendClosing ==
    /\ pc = "recv"
    /\ sock = <<>>
    /\ \E k \in 1..(MaxFrames - kframes) :
          \E fs \in [1..(k - 1) -> MultiFrames(request.header.seq, PortId)],
             end \in ClosingFrames(request.header.seq, PortId)
                        \cup StrayFrames(request.header.seq, PortId) :
              /\ sock' = <<DatagramOf(Append(fs, end))>>
              /\ kframes' = kframes + k
              /\ ksent' = ksent \o Append(fs, end)
    /\ UNCHANGED <<pc, fd, next_seq, request, resp_typ, pid, out, resps, ret,
                   seen, nsend, nrecv, seq_log, closes, opened,
                   codecVars, utilVars>>

\* The same, the datagram carrying one frame more after the closing one
KernelSendBeyond ==
    /\ pc = "recv"
    /\ sock = <<>>
    /\ \E k \in 2..(MaxFrames - kframes) :
          \E fs \in [1..(k - 2) -> MultiFrames(request.header.seq, PortId)],
             end \in ClosingFrames(request.header.seq, PortId),
             extra \in ExtraFrames(request.header.seq, PortId) :
              /\ sock' = <<DatagramOf(fs \o <<end, extra>>)>>
              /\ kframes' = kframes + k
              /\ ksent' = ksent \o fs \o <<end, extra>>
    /\ UNCHANGED <<pc, fd, next_seq, request, resp_typ, pid, out, resps, ret,
                   seen, nsend, nrecv, seq_log, closes, opened,
                   codecVars, utilVars>>

\* The kernel answers a request that carries NLM_F_ACK and is no dump: the
\* link message in one datagram and the acknowledgment in the next, both
\* queued before exec reads
KernelSendReplyThenAck ==
    /\ pc = "recv"
    /\ sock = <<>>
    /\ kframes + 2 <= MaxFrames
    /\ ksent = <<>>
    /\ HasFlag(request.header.flags, NLM_F_ACK)
    /\ LET reply == Frame(RTM_NEWLINK, 0, request.header.seq, PortId, <<>>)
           ack == Frame(NLMSG_ERROR, 0, request.header.seq, PortId,
                        <<0, 0, 0, 0>>)
       IN  /\ sock' = <<DatagramOf(<<reply>>), DatagramOf(<<ack>>)>>
           /\ ksent' = <<reply, ack>>
    /\ kframes' = kframes + 2
    /\ UNCHANGED <<pc, fd, next_seq, request, resp_typ, pid, out, resps, ret,
                   seen, nsend, nrecv, seq_log, closes, opened,
                   codecVars, utilVars>>

\* The kernel (or whoever else can write to the socket) queues a datagram
\* that is no sequence of frames
KernelSendBroken ==
    /\ pc = "recv"
    /\ sock = <<>>
    /\ kframes + 1 <= MaxFrames
    /\ \E d \in BrokenDatagrams(request.header.seq, PortId) : sock' = <<d>>
    /\ kframes' = kframes + 1
    /\ UNCHANGED <<pc, fd, next_seq, request, resp_typ, pid, out, resps, ret,
                   ksent, seen, nsend, nrecv, seq_log, closes, opened,
                   codecVars, utilVars>>

\* `self.recv()?` at the head of exec's loop, conn.rs:160 with recv,
\* conn.rs:105-140, when a datagram is there to be read
ExecRecv(overflow_checks) ==
    /\ pc = "recv"
    /\ sock # <<>>
    /\ IF fd <= 0
       THEN /\ ret' = Err("NotConnected")
            /\ pc' = "done"
            /\ UNCHANGED <<sock, nrecv, resps>>
       ELSE LET msgs == recv_decode(recv_read(Head(sock)), overflow_checks)
            IN  /\ sock' = Tail(sock)
                /\ nrecv' = nrecv + 1
                /\ IF msgs.kind # "Ok"
                   THEN /\ ret' = msgs
                        /\ pc' = "done"
                        /\ UNCHANGED resps
                   ELSE /\ resps' = msgs.val
                        /\ pc' = IF msgs.val = <<>> THEN "recv" ELSE "frames"
                        /\ UNCHANGED ret
    /\ UNCHANGED <<fd, next_seq, request, resp_typ, pid, out, kframes, ksent,
                   seen,
                   nsend, seq_log, closes, opened,
                   codecVars, utilVars>>

\* `self.recv()?` when the read itself fails, conn.rs:123-125
ExecRecvFail(e) ==
    /\ pc = "recv"
    /\ fd > 0
    /\ sock = <<>>
    /\ nrecv' = nrecv + 1
    /\ ret' = OsErr(e)
    /\ pc' = "done"
    /\ UNCHANGED <<fd, next_seq, request, resp_typ, pid, out, resps, sock,
                   kframes, ksent, seen, nsend, seq_log, closes, opened,
                   codecVars, utilVars>>

\* One turn of `for resp in resps.drain(0..)`, conn.rs:161-222
ExecFrame(overflow_checks) ==
    /\ pc = "frames"
    /\ resps # <<>>
    /\ LET resp == Head(resps)
           r == exec_frame(resp, request.header.seq, pid, resp_typ, out,
                           overflow_checks)
       IN  /\ seen' = Append(seen, resp)
           /\ resps' = Tail(resps)
           /\ out' = r.out
           /\ ret' = r.ret
           /\ pc' = IF r.ret.kind # "Pending" THEN "done"
                    ELSE IF Tail(resps) = <<>> THEN "recv"
                    ELSE "frames"
    /\ UNCHANGED <<fd, next_seq, request, resp_typ, pid, sock, kframes, ksent,
                   nsend, nrecv, seq_log, closes, opened,
                   codecVars, utilVars>>

\* exec has returned to its caller, which may call it again; the locals of
\* the call are gone
ExecReturn ==
    /\ pc = "done"
    /\ ret.kind # "Panic"
    /\ pc' = "idle"
    /\ out' = <<>>
    /\ resps' = <<>>
    /\ seen' = <<>>
    /\ nsend' = 0
    /\ nrecv' = 0
    /\ pid' = 0
    /\ ret' = Pending
    /\ request' = NoRequest
    /\ resp_typ' = <<>>
    /\ kframes' = 0
    /\ ksent' = <<>>
    /\ UNCHANGED <<fd, next_seq, sock, seq_log, closes, opened,
                   codecVars, utilVars>>

\* Drop for NetlinkSocket, conn.rs:227-234: the owner lets the session go, or
\* a panic unwinds through it
Drop ==
    /\ pc = "idle" \/ (pc = "done" /\ ret.kind = "Panic")
    /\ pc' = "dropped"
    /\ fd' = 0
    /\ closes' = IF fd > 0 THEN closes + 1 ELSE closes
    /\ UNCHANGED <<next_seq, request, resp_typ, pid, out, resps, ret, sock,
                   kframes, ksent, seen, nsend, nrecv, seq_log, opened,
                   codecVars, utilVars>>

-----------------------------------------------------------------------------
(* The session: one socket, its kernel, and the calls made on it *)

ExecInit ==
    /\ pc = "new"
    /\ fd = 0
    /\ next_seq = 0
    /\ request = NoRequest
    /\ resp_typ = <<>>
    /\ pid = 0
    /\ out = <<>>
    /\ resps = <<>>
    /\ ret = Pending
    /\ sock = <<>>
    /\ kframes = 0
    /\ ksent = <<>>
    /\ seen = <<>>
    /\ nsend = 0
    /\ nrecv = 0
    /\ seq_log = <<>>
    /\ closes = 0
    /\ opened = <<>>

CodecOff ==
    /\ cpc = "off"
    /\ cwhat = "msg"
    /\ built = <<>>
    /\ cbuf = <<>>
    /\ cidx = 0
    /\ cres = <<>>
    /\ cret = Pending
    /\ cone = [idx |-> 0, ret |-> Pending]

\* no function has been called
NoFn == [fn |-> "none", arg |-> <<>>, origin |-> <<>>]

UtilOff ==
    /\ abuilt = <<>>
    /\ fn_call = NoFn
    /\ fn_ret = Pending

Init == ExecInit /\ CodecOff /\ UtilOff

Next ==
    \/ \E sockfd \in {-1} \cup SockFds, bind_ok \in BOOLEAN,
          e \in LastOsErrors : New(sockfd, bind_ok, e)
    \/ \E call \in ExecCalls, send_ok \in BOOLEAN, e \in LastOsErrors :
          ExecSend(call, send_ok, e)
    \/ \E getsockname_ok \in BOOLEAN, e \in LastOsErrors :
          ExecPid(getsockname_ok, e)
    \/ KernelSend
    \/ KernelSendClosing
    \/ KernelSendBeyond
    \/ KernelSendBroken
    \/ KernelSendReplyThenAck
    \/ \E overflow_checks \in BOOLEAN : ExecRecv(overflow_checks)
    \/ \E e \in LastOsErrors : ExecRecvFail(e)
    \/ \E overflow_checks \in BOOLEAN : ExecFrame(overflow_checks)
    \/ ExecReturn
    \/ Drop

Spec == Init /\ [][Next]_vars

\* libc::recv returns when a datagram is queued, conn.rs:110-122: the step
\* of ExecRecv on an open socket, whatever the decoding after it gives
recv_returns ==
    /\ pc = "recv"
    /\ sock # <<>>
    /\ sock' = Tail(sock)
    /\ nrecv' = nrecv + 1

\* exec, once called, runs: recv returns when a datagram is queued, and the
\* loop over its frames takes its next turn. Nothing makes the kernel send,
\* and nothing makes an empty socket fail.
SpecFair ==
    /\ Spec
    /\ WF_<<sock, nrecv>>(recv_returns)
    /\ WF_vars(\E overflow_checks \in BOOLEAN : ExecFrame(overflow_checks))

-----------------------------------------------------------------------------
(* The codec on its own: messages are built and encoded, buffers are        *)
(* decoded turn by turn, and one_from_bytes is called at any offset         *)

\* add_data is called on a message while its payload is shorter than this
MaxPayload == 8

\* the messages a caller builds: NetlinkMessage::new with these arguments
NewArgs == { <<RTM_GETLINK, NLM_F_DUMP + NLM_F_REQUEST>>, <<OtherTyp, 0>> }
\* and add_data with these bytes
DataChoices == { <<7>>, <<1, 2, 3, 4>>, <<1, 2, 3, 4, 5, 6>> }

\* a buffer padded to the alignment
Padded(b) == b \o Zeroes(align(Len(b)) - Len(b))

\* Buffers of a peer that need not be well formed: a message header that
\* declares len, then the bytes of tail; one such or two in a row
RawMsg(len, tail) ==
    U32Bytes(len) \o U16Bytes(RTM_NEWLINK) \o U16Bytes(0) \o U32Bytes(0)
        \o U32Bytes(PortId) \o tail
RawTails == { <<>>, <<9>>, <<9, 8, 7, 6>> }
RawMsgs == { RawMsg(len, t) : len \in {0, 8, 16, 17, 20, 24}, t \in RawTails }
RawMsgBuffers ==
    {<<7, 0, 0>>} \cup RawMsgs \cup { a \o b : a \in RawMsgs, b \in RawMsgs }

\* the same for attributes
RawAttr(len, tail) == U16Bytes(len) \o U16Bytes(1) \o tail
RawAttrs == { RawAttr(len, t) : len \in {0, 2, 4, 5, 8, 9}, t \in RawTails }
RawAttrBuffers ==
    {<<>>, <<5, 0>>} \cup RawAttrs
        \cup { a \o b : a \in RawAttrs, b \in RawAttrs }

NoCall == [idx |-> 0, ret |-> Pending]

\* add_data is called on an attribute while its value is shorter than this
MaxAttrPayload == 13
\* at most this many attributes are built
MaxAttrs == 2

\* the attributes a caller builds: RtAttr::new with these types and values
\* (no value, one and three bytes, a flag, two texts, a 4-byte number)
AttrTypes == {1, 3}
AttrValues ==
    { <<>>, <<1>>, <<7, 8, 9>>, <<101, 0>>, <<101, 0, 102, 0>>,
      <<18, 52, 86, 120>> }
\* the calls of RtAttr::new: type 1 with each value, type 3 with two
AttrNewArgs ==
    { <<1, v>> : v \in AttrValues } \cup { <<3, <<>>>>, <<3, <<7, 8, 9>>>> }
\* and add_data with these bytes, those of tests::test_rtattr
AttrDataChoices == { <<18, 52, 86, 120>>, <<1, 2, 3, 4, 5, 6>>, <<7, 8, 9>> }

\* `NetlinkMessage::new(typ, flags)` by a caller
MsgNew(typ, flags) ==
    /\ cpc = "build"
    /\ abuilt = <<>>
    /\ Len(built) < 2
    /\ built' = Append(built, NetlinkMessage_new(typ, flags))
    /\ UNCHANGED <<cpc, cwhat, cbuf, cidx, cres, cret, cone, execVars, utilVars>>

\* `m.add_data(d)` on the message built last
MsgAddData(d) ==
    /\ cpc = "build"
    /\ built # <<>>
    /\ Len(built[Len(built)].data) < MaxPayload
    /\ built' = [built EXCEPT ![Len(built)] = NetlinkMessage_add_data(@, d)]
    /\ UNCHANGED <<cpc, cwhat, cbuf, cidx, cres, cret, cone, execVars, utilVars>>

\* The built messages are encoded, each padded to the alignment, and the
\* concatenation is handed to NetlinkMessage::from_bytes
DecodeBuilt ==
    /\ cpc = "build"
    /\ built # <<>>
    /\ LET bs == [i \in 1..Len(built) |-> NetlinkMessage_to_bytes(built[i])]
       IN  /\ \A i \in 1..Len(built) : bs[i].kind = "Ok"
           /\ cbuf' = Concat([i \in 1..Len(built) |-> Padded(bs[i].val)])
    /\ cwhat' = "msg"
    /\ cpc' = "decode"
    /\ cidx' = 0
    /\ cres' = <<>>
    /\ UNCHANGED <<built, cret, cone, execVars, utilVars>>

\* `RtAttr::new(typ, data)` by a caller
AttrNew(typ, data) ==
    /\ cpc = "build"
    /\ built = <<>>
    /\ Len(abuilt) < MaxAttrs
    /\ abuilt' = Append(abuilt, RtAttr_new(typ, data))
    /\ UNCHANGED <<fn_call, fn_ret, execVars, codecVars>>

\* `a.add_data(&d)` on the only attribute built
AttrAddData(d) ==
    /\ cpc = "build"
    /\ Len(abuilt) = 1
    /\ Len(abuilt[1].data) < MaxAttrPayload
    /\ abuilt' = <<RtAttr_add_data(abuilt[1], d)>>
    /\ UNCHANGED <<fn_call, fn_ret, execVars, codecVars>>

\* The built attributes are encoded and the concatenation is handed to
\* RtAttr::from_bytes
DecodeBuiltAttrs ==
    /\ cpc = "build"
    /\ abuilt # <<>>
    /\ cbuf' = Concat([i \in 1..Len(abuilt) |-> RtAttr_to_bytes(abuilt[i])])
    /\ cwhat' = "attr"
    /\ cpc' = "decode"
    /\ cidx' = 0
    /\ cres' = <<>>
    /\ UNCHANGED <<built, cret, cone, execVars, utilVars>>

\* A buffer of the peer is handed to NetlinkMessage::from_bytes
DecodeRawMsg(v) ==
    /\ cpc = "build"
    /\ built = <<>>
    /\ abuilt = <<>>
    /\ cbuf' = v
    /\ cwhat' = "msg"
    /\ cpc' = "decode"
    /\ cidx' = 0
    /\ cres' = <<>>
    /\ UNCHANGED <<built, cret, cone, execVars, utilVars>>

\* A buffer of the peer is handed to RtAttr::from_bytes
DecodeRawAttr(v) ==
    /\ cpc = "build"
    /\ built = <<>>
    /\ abuilt = <<>>
    /\ cbuf' = v
    /\ cwhat' = "attr"
    /\ cpc' = "decode"
    /\ cidx' = 0
    /\ cres' = <<>>
    /\ UNCHANGED <<built, cret, cone, execVars, utilVars>>

\* One turn of `while idx < len` in NetlinkMessage::from_bytes,
\* packet.rs:90-97, or the return after it
MsgDecodeTurn(overflow_checks) ==
    /\ cpc = "decode"
    /\ cwhat = "msg"
    /\ LET t == from_bytes_turn(cbuf, cidx, cres, overflow_checks)
       IN  /\ cidx' = t.idx
           /\ cres' = t.res
           /\ cret' = t.ret
           /\ cpc' = IF t.ret.kind # "Pending" THEN "done" ELSE "decode"
    /\ UNCHANGED <<cwhat, built, cbuf, cone, execVars, utilVars>>

\* One turn of `while idx < len` in RtAttr::from_bytes, rtattr.rs:139-144,
\* or the return after it
AttrDecodeTurn(overflow_checks) ==
    /\ cpc = "decode"
    /\ cwhat = "attr"
    /\ LET t == RtAttr_from_bytes_turn(cbuf, cidx, cres, overflow_checks)
       IN  /\ cidx' = t.idx
           /\ cres' = t.res
           /\ cret' = t.ret
           /\ cpc' = IF t.ret.kind # "Pending" THEN "done" ELSE "decode"
    /\ UNCHANGED <<cwhat, built, cbuf, cone, execVars, utilVars>>

\* the offsets a caller passes: those into the buffer, the one past its end
\* and the next, usize::MAX, and the last offset to which a message header
\* size can be added and the first to which it cannot
Offsets(v) == (0..(Len(v) + 1)) \cup {-1, -17, -16}

\* the typed extractions of an attribute
Extractions == {"as_u32", "as_u16", "as_bool", "to_cstring"}
Extract(f, a) ==
    CASE f = "as_u32" -> RtAttr_as_u32(a)
      [] f = "as_u16" -> RtAttr_as_u16(a)
      [] f = "as_bool" -> RtAttr_as_bool(a)
      [] f = "to_cstring" -> RtAttr_to_cstring(a)

\* `cret[i].as_u32()` and the like, by a caller, on an attribute that
\* RtAttr::from_bytes returned
AttrExtract(f, i) ==
    /\ cpc = "done"
    /\ cwhat = "attr"
    /\ cret.kind = "Ok"
    /\ cone.ret.kind = "Pending"
    /\ fn_call.fn = "none"
    /\ i \in 1..Len(cret.val)
    /\ fn_call' = [fn |-> f, arg |-> cret.val[i], origin |-> <<>>]
    /\ fn_ret' = Extract(f, cret.val[i])
    /\ UNCHANGED <<abuilt, execVars, codecVars>>

\* `NetlinkMessage::one_from_bytes(&cbuf, idx)` by a caller
MsgOneFromBytes(idx, overflow_checks) ==
    /\ cpc = "done"
    /\ built = <<>>
    /\ abuilt = <<>>
    /\ fn_call.fn = "none"
    /\ cwhat = "msg"
    /\ cone = NoCall
    /\ cone' = [idx |-> idx,
                ret |-> NetlinkMessage_one_from_bytes(cbuf, idx, overflow_checks)]
    /\ UNCHANGED <<cpc, cwhat, built, cbuf, cidx, cres, cret, execVars, utilVars>>

\* `RtAttr::one_from_bytes(&cbuf, idx)` by a caller
AttrOneFromBytes(idx, overflow_checks) ==
    /\ cpc = "done"
    /\ built = <<>>
    /\ abuilt = <<>>
    /\ fn_call.fn = "none"
    /\ cwhat = "attr"
    /\ cone = NoCall
    /\ cone' = [idx |-> idx,
                ret |-> RtAttr_one_from_bytes(cbuf, idx, overflow_checks)]
    /\ UNCHANGED <<cpc, cwhat, built, cbuf, cidx, cres, cret, execVars, utilVars>>

CodecInit ==
    /\ cpc = "build"
    /\ cwhat = "msg"
    /\ built = <<>>
    /\ cbuf = <<>>
    /\ cidx = 0
    /\ cres = <<>>
    /\ cret = Pending
    /\ cone = NoCall

InitCodec == ExecInit /\ CodecInit /\ UtilOff

NextCodec ==
    \/ \E a \in NewArgs : MsgNew(a[1], a[2])
    \/ \E d \in DataChoices : MsgAddData(d)
    \/ DecodeBuilt
    \/ \E v \in RawMsgBuffers : DecodeRawMsg(v)
    \/ \E v \in RawAttrBuffers : DecodeRawAttr(v)
    \/ \E overflow_checks \in BOOLEAN : MsgDecodeTurn(overflow_checks)
    \/ \E overflow_checks \in BOOLEAN : AttrDecodeTurn(overflow_checks)
    \/ \E a \in AttrNewArgs : AttrNew(a[1], a[2])
    \/ \E d \in AttrDataChoices : AttrAddData(d)
    \/ DecodeBuiltAttrs
    \/ \E f \in Extractions, i \in 1..MaxAttrs : AttrExtract(f, i)
    \/ \E idx \in Offsets(cbuf), overflow_checks \in BOOLEAN :
            MsgOneFromBytes(idx, overflow_checks)
    \/ \E idx \in Offsets(cbuf), overflow_checks \in BOOLEAN :
            AttrOneFromBytes(idx, overflow_checks)

SpecCodec == InitCodec /\ [][NextCodec]_vars

\* The callers that hand a buffer of the peer to a decoder and wait for what
\* it returns
NextDecode ==
    \/ \E v \in RawMsgBuffers : DecodeRawMsg(v)
    \/ \E v \in RawAttrBuffers : DecodeRawAttr(v)
    \/ \E overflow_checks \in BOOLEAN : MsgDecodeTurn(overflow_checks)
    \/ \E overflow_checks \in BOOLEAN : AttrDecodeTurn(overflow_checks)

\* from_bytes, once called, runs: its loop takes its next turn
SpecCodecFair ==
    /\ InitCodec
    /\ [][NextDecode]_vars
    /\ WF_vars(\E overflow_checks \in BOOLEAN : MsgDecodeTurn(overflow_checks))
    /\ WF_vars(\E overflow_checks \in BOOLEAN :
                  AttrDecodeTurn(overflow_checks))

-----------------------------------------------------------------------------
(* The functions called on their own: SpecUtil calls one function on an    *)
(* argument and may then call the next function of a round trip on what    *)
(* the first returned                                                      *)

\* align is called on the lengths 0 .. MaxAlignArg
MaxAlignArg == 64

\* the headers a caller encodes: every field at zero, at its largest value
\* that the model's integers hold and in between; len around the size of a
\* header
Headers ==
    [len : {0, 15, 16, 17, 2147483647}, typ : {0, RTM_NEWLINK, 65535},
     flags : {0, NLM_F_DUMP + NLM_F_REQUEST}, seq : {0, 1, 2147483647},
     pid : {0, PortId}]

\* `util::align(n)` by a caller
AlignCall(n) ==
    /\ fn_call.fn = "none"
    /\ fn_call' = [fn |-> "align", arg |-> n, origin |-> <<>>]
    /\ fn_ret' = Ok(align(n))
    /\ UNCHANGED <<abuilt, execVars, codecVars>>

\* `util::align` on what align returned
AlignAgain ==
    /\ fn_call.fn = "align"
    /\ fn_call.origin = <<>>
    /\ fn_call' = [fn |-> "align", arg |-> fn_ret.val,
                   origin |-> <<fn_call.arg>>]
    /\ fn_ret' = Ok(align(fn_ret.val))
    /\ UNCHANGED <<abuilt, execVars, codecVars>>

\* `h.to_bytes()` on a header
HeaderToBytes(h) ==
    /\ fn_call.fn = "none"
    /\ fn_call' = [fn |-> "NetlinkHeader::to_bytes", arg |-> h,
                   origin |-> <<>>]
    /\ fn_ret' = NetlinkHeader_to_bytes(h)
    /\ UNCHANGED <<abuilt, execVars, codecVars>>

\* `NetlinkHeader::from_bytes` on the bytes to_bytes returned
HeaderFromBytes ==
    /\ fn_call.fn = "NetlinkHeader::to_bytes"
    /\ fn_ret.kind = "Ok"
    /\ fn_call' = [fn |-> "NetlinkHeader::from_bytes", arg |-> fn_ret.val,
                   origin |-> <<fn_call.arg>>]
    /\ fn_ret' = NetlinkHeader_from_bytes(fn_ret.val)
    /\ UNCHANGED <<abuilt, execVars, codecVars>>

\* an attribute as the kernel lays it out: length, type, value, padding
Nla(typ, v) ==
    U16Bytes(4 + Len(v)) \o U16Bytes(typ) \o v
        \o Zeroes(align(Len(v)) - Len(v))

\* the type code under which the kernel nests the attributes of the kind
\* inside the link-info container (the "kind-specific data" of mod.rs:155)
IFLA_INFO_DATA == 2

\* the kinds of links the kernel reports: the four that
\* LinkType::from_attrs knows, and "tun"
LinkKinds == {KindBridge, KindDummy, KindVeth, KindVlan, <<116, 117, 110>>}

\* the kind's own attributes: vlan filtering on for a bridge, id 100 for a
\* vlan
KindData(kind) ==
    IF kind = KindBridge THEN Nla(IFLA_BR_VLAN_FILTERING, <<1>>)
    ELSE IF kind = KindVlan THEN Nla(IFLA_VLAN_ID, <<100, 0>>)
    ELSE <<>>

\* the RTM_NEWLINK message of a link of this kind, named "e", mtu 1500;
\* with_data: the kind's attributes are present; terminated: the kind text
\* ends in a zero byte
LinkMessage(kind, with_data, terminated) ==
    LET text == IF terminated THEN kind \o <<0>> ELSE kind
        info == Nla(IFLA_INFO_KIND, text)
                  \o (IF with_data
                      THEN Nla(IFLA_INFO_DATA, KindData(kind))
                      ELSE <<>>)
        attrs == Nla(IFLA_IFNAME, <<101, 0>>)
                   \o Nla(IFLA_MTU, U32Bytes(1500))
                   \o Nla(IFLA_LINKINFO, info)
        head == [IfInfoMsg_default EXCEPT !.index = LinkIndex, !.flags = 1]
    IN  NetlinkMessage_add_data(
            NetlinkMessage_add_data(NetlinkMessage_new(RTM_NEWLINK, 0),
                                    IfInfoMsg_to_bytes(head)),
            attrs)

\* `LinkMsg::from_message(&m)` by a caller, link_list's and
\* link_get_by_index's use of it at mod.rs:184 and mod.rs:206
LinkFromMessage(kind, with_data, terminated, overflow_checks) ==
    /\ fn_call.fn = "none"
    /\ LET m == LinkMessage(kind, with_data, terminated)
       IN  /\ fn_call' = [fn |-> "LinkMsg::from_message", arg |-> m,
                          origin |-> <<[kind |-> kind, data |-> with_data,
                                        text |-> terminated]>>]
           /\ fn_ret' = LinkMsg_from_message(m, overflow_checks)
    /\ UNCHANGED <<abuilt, execVars, codecVars>>

\* where the end of the receive buffer falls in an oversize datagram: on the
\* boundary between its two frames, or 8 bytes or 20 bytes into the second
OversizeCuts == {0, 8, 20}

\* a datagram larger than the receive buffer: a link message that fills the
\* buffer except for `short` bytes, followed by a frame with 8 bytes of
\* payload
OversizeDatagram(short, flags) ==
    DatagramOf(<<Frame(RTM_NEWLINK, flags, 1, PortId,
                       Zeroes(RECEIVE_BUFFER_SIZE - NetlinkHeader_size
                                - short)),
                 Frame(RTM_NEWLINK, flags, 1, PortId, Zeroes(8))>>)

\* what the caller of recv has in hand, with the payloads reduced to their
\* sizes
Sizes(r) ==
    IF r.kind # "Ok" THEN r
    ELSE Ok([i \in 1..Len(r.val) |->
                [header |-> r.val[i].header, size |-> Len(r.val[i].data)]])

\* `self.recv()` on a connected session, conn.rs:105-140, when the datagram
\* queued is an oversize one
RecvOversize(short, flags, overflow_checks) ==
    /\ fn_call.fn = "none"
    /\ LET d == OversizeDatagram(short, flags)
       IN  /\ fn_call' = [fn |-> "recv",
                          arg |-> [datagram_size |-> Len(d),
                                   read_size |-> Len(recv_read(d))],
                          origin |-> <<short, flags>>]
           /\ fn_ret' = Sizes(recv_decode(recv_read(d), overflow_checks))
    /\ UNCHANGED <<abuilt, execVars, codecVars>>

NextUtil ==
    \/ \E short \in OversizeCuts, flags \in {0, NLM_F_MULTI},
          overflow_checks \in BOOLEAN :
          RecvOversize(short, flags, overflow_checks)
    \/ \E n \in 0..MaxAlignArg : AlignCall(n)
    \/ AlignAgain
    \/ \E h \in Headers : HeaderToBytes(h)
    \/ HeaderFromBytes
    \/ \E kind \in LinkKinds, with_data, terminated, overflow_checks \in BOOLEAN :
          LinkFromMessage(kind, with_data, terminated, overflow_checks)

SpecUtil == Init /\ [][NextUtil]_vars

-----------------------------------------------------------------------------
(* Properties of the transaction, checked under Spec *)

Last(sq) == sq[Len(sq)]
Front(sq) == SubSeq(sq, 1, Len(sq) - 1)

\* the frame carries the request's sequence number and the session's port id
Answers(f) == f.header.seq = request.header.seq /\ f.header.pid = PortId
\* the frame is an ack/error frame or a dump-terminator
Reserved(f) == f.header.typ \in {NLMSG_ERROR, NLMSG_DONE}
\* the frame passes the caller's type filter
PassesFilter(f) == resp_typ = <<>> \/ f.header.typ = resp_typ[1]
Kept(f) == ~Reserved(f) /\ PassesFilter(f)
Multipart(f) == (f.header.flags \div NLM_F_MULTI) % 2 = 1
\* an ack/error frame whose payload holds an error code
HasCode(f) == f.header.typ = NLMSG_ERROR /\ Len(f.data) >= 4
AckZero(f) == HasCode(f) /\ SubSeq(f.data, 1, 4) = <<0, 0, 0, 0>>

\* C1: when exec returns success, the frames it examined are the first of
\* those the kernel sent, and its result is exactly those of them, in order,
\* that are neither ack/error nor dump-terminator frames and pass the filter;
\* a dump-terminator that answers the request ends exec successfully with what
\* was accumulated before it.
C1_ResultIsKeptFrames ==
    /\ (pc = "done" /\ ret.kind = "Ok") =>
          /\ Len(seen) <= Len(ksent)
          /\ seen = SubSeq(ksent, 1, Len(seen))
          /\ ret.val = SelectSeq(seen, Kept)
    /\ (pc = "done" /\ seen # <<>> /\ Answers(Last(seen))
            /\ Last(seen).header.typ = NLMSG_DONE) =>
          ret = Ok(SelectSeq(Front(seen), Kept))

\* two multipart link messages followed by a terminator return the two
C1_Witness ==
    /\ pc = "done"
    /\ ret.kind = "Ok"
    /\ Len(seen) = 3
    /\ Last(seen).header.typ = NLMSG_DONE
    /\ Len(ret.val) = 2
    /\ ret.val[1].header.typ = RTM_NEWLINK

\* C2: a frame that answers the request, has the ack/error type and carries
\* code 0 makes exec return success with the messages accumulated before it,
\* without another receive.
C2_AckZeroReturnsAccumulated ==
    [][ (pc = "frames" /\ resps # <<>> /\ Answers(Head(resps))
            /\ AckZero(Head(resps)))
        => (pc' = "done" /\ ret' = Ok(out) /\ nrecv' = nrecv /\ sock' = sock)
      ]_vars

C2_Witness ==
    /\ pc = "done"
    /\ seen # <<>>
    /\ Answers(Last(seen))
    /\ AckZero(Last(seen))
    /\ ret.kind = "Ok"
    /\ Len(ret.val) = 1

\* C3: a frame that answers the request, has the ack/error type and carries
\* a non-zero code c makes exec fail with an operating-system error whose raw
\* code is the magnitude of c.
C3_NonZeroCodeFailsWithMagnitude ==
    (pc = "done" /\ seen # <<>> /\ Answers(Last(seen)) /\ HasCode(Last(seen))
        /\ ~AckZero(Last(seen))) =>
       /\ ret.kind = "Err"
       /\ ret.err = "Os"
       /\ ret.code >= 0
       /\ \/ ret.code = I32Of(SubSeq(Last(seen).data, 1, 4))
          \/ ret.code + I32Of(SubSeq(Last(seen).data, 1, 4)) = 0

\* C4: a frame that answers the request, is kept and does not carry the
\* multipart flag is appended and ends exec with success at once: no frame
\* after it is examined and no further receive is made.
C4_SingleMessageReturnsAtOnce ==
    [][ /\ (pc = "frames" /\ resps # <<>> /\ Answers(Head(resps))
                /\ Kept(Head(resps)) /\ ~Multipart(Head(resps)))
           => /\ pc' = "done"
              /\ ret' = Ok(Append(out, Head(resps)))
              /\ seen' = Append(seen, Head(resps))
              /\ nrecv' = nrecv
        /\ pc = "done" => (pc' \in {"idle", "dropped"} /\ sock' = sock)
      ]_vars

\* the message that ended the call is followed, in the same buffer, by a
\* frame that would not have passed the sequence check
C4_Witness ==
    /\ pc = "done"
    /\ ret.kind = "Ok"
    /\ Len(ret.val) = 2
    /\ Last(ret.val) = Last(seen)
    /\ resps # <<>>
    /\ Head(resps).header.seq # request.header.seq

\* C5: a frame whose sequence number differs from the request's makes exec
\* fail (invalid data), and one whose sequence number matches but whose port
\* id differs from the session's makes it fail too, whatever the frame's type
\* and whatever was accumulated; nothing accumulated is returned.
C5_SeqThenPidChecked ==
    [][ (pc = "frames" /\ resps # <<>>) =>
          /\ Head(resps).header.seq # request.header.seq
                => (pc' = "done" /\ IsErr(ret', "InvalidData")
                      /\ ret'.val = NoVal)
          /\ (Head(resps).header.seq = request.header.seq
                /\ Head(resps).header.pid # PortId)
                => (pc' = "done" /\ IsErr(ret', "Other") /\ ret'.val = NoVal)
      ]_vars

\* an ack frame of another sequence number, after a message was accumulated
C5_Witness ==
    /\ pc = "done"
    /\ IsErr(ret, "InvalidData")
    /\ out # <<>>
    /\ Last(seen).header.typ = NLMSG_ERROR
    /\ Last(seen).header.seq # request.header.seq

\* C6: under a type filter, a frame that answers the request, is not
\* reserved and has another type is not added and does not end the call,
\* multipart or not: exec goes on to the next frame or the next receive.  The
\* reserved frames end the call though their type differs from the filter.
C6_FilterSkipsAndGoesOn ==
    [][ (pc = "frames" /\ resps # <<>> /\ resp_typ # <<>>
            /\ Answers(Head(resps))) =>
          /\ (~Reserved(Head(resps))
                /\ Head(resps).header.typ # resp_typ[1])
                => /\ out' = out
                   /\ ret' = Pending
                   /\ resps' = Tail(resps)
                   /\ pc' = IF Tail(resps) = <<>> THEN "recv" ELSE "frames"
          /\ Reserved(Head(resps)) => pc' = "done"
      ]_vars

\* a skipped frame without the multipart flag, after which exec receives again
C6_Witness ==
    /\ pc = "recv"
    /\ resp_typ # <<>>
    /\ seen # <<>>
    /\ Last(seen).header.typ = OtherTyp
    /\ ~Multipart(Last(seen))
    /\ out = <<>>

\* C7: every exec call writes the counter's value into the request header and
\* raises the counter by one, whether the call then succeeds or fails; no
\* other step changes the counter; so the requests sent on a session carry
\* 0, 1, 2, ...
C7_SeqAssignedAndCounted ==
    /\ [](/\ seq_log = [i \in 1..Len(seq_log) |-> i - 1]
          /\ Len(seq_log) = next_seq
          /\ pc \in {"sent", "recv", "frames", "done"}
                => request.header.seq = next_seq - 1)
    /\ [][ /\ (pc = "idle" /\ pc' \notin {"idle", "dropped"})
              => (next_seq' = next_seq + 1 /\ request'.header.seq = next_seq)
           /\ pc # "idle" => next_seq' = next_seq
         ]_vars

\* the second call on the session failed; it carried 1
C7_Witness ==
    /\ pc = "done"
    /\ ret.kind = "Err"
    /\ seq_log = <<0, 1>>
    /\ request.header.seq = 1

-----------------------------------------------------------------------------
(* Properties of the codecs, checked under SpecCodec *)

\* the header size of what the buffer holds, and the length that the header
\* at an offset declares
HeaderSizeOf(what) == IF what = "msg" THEN NetlinkHeader_size
                      ELSE RtAttrHeader_size
DeclaredLen(what, v, idx) ==
    IF what = "msg" THEN U32Of(Slice(v, idx, idx + 4))
    ELSE U16Of(Slice(v, idx, idx + 2))
\* fewer bytes than a header remain at the offset, or fewer than the header
\* there declares
Truncated(what, v, idx) ==
    \/ usize_lt(Len(v), idx)
    \/ Len(v) - idx < HeaderSizeOf(what)
    \/ Len(v) - idx < DeclaredLen(what, v, idx)

\* C8: at every offset of every buffer, one_from_bytes of messages and of
\* attributes returns the truncation error (and so does not panic) when fewer
\* bytes than a header remain at the offset or the declared length extends
\* past the end of the buffer; from_bytes returns that error when it meets
\* such an offset.
C8_TruncationIsAnError ==
    /\ (cone # NoCall /\ Truncated(cwhat, cbuf, cone.idx))
          => IsErr(cone.ret, "UnexpectedEof")
    /\ (cpc = "done" /\ cidx < Len(cbuf) /\ Truncated(cwhat, cbuf, cidx))
          => IsErr(cret, "UnexpectedEof")

\* C9: from_bytes of messages and of attributes returns a decoded value or
\* an error for every buffer, and never panics.
C9_DecodersNeverPanic ==
    cpc = "done" => cret.kind \in {"Ok", "Err"}

\* C10: the concatenation of the encodings of messages built with new and
\* add_data decodes to exactly those messages, in order, with equal headers
\* and payloads; each turn of the decoder advances the offset by the aligned
\* length of the message it decoded, and the decoder stops, with success,
\* when the offset is the length of the buffer.
C10_EncodedPairDecodesToPair ==
    /\ []((built # <<>> /\ cpc = "done")
            => (cret = Ok(built) /\ cidx = Len(cbuf)))
    /\ [][ (built # <<>> /\ cpc = "decode") =>
              IF cidx < Len(cbuf)
              THEN /\ cpc' = "decode"
                   /\ cres' = Append(cres, built[Len(cres) + 1])
                   /\ cidx' = align(cidx + built[Len(cres) + 1].header.len)
              ELSE /\ cpc' = "done"
                   /\ cidx = Len(cbuf)
                   /\ cret'.kind = "Ok"
         ]_vars

\* two different messages, the first with two payloads that needed padding
C10_Witness ==
    /\ cpc = "done"
    /\ Len(built) = 2
    /\ built[1] # built[2]
    /\ Len(built[1].data) = 12
    /\ built[1].header.len = 28
    /\ cret.kind = "Ok"
    /\ Len(cret.val) = 2
    /\ cret.val[2] = built[2]

\* the zero bytes that bring k bytes to a multiple of 4
PadOf(k) == Zeroes((4 - (k % 4)) % 4)

\* C12: add_data with k bytes appends them and the zero bytes up to the next
\* multiple of 4 to the payload and adds the length of both to header.len,
\* leaving typ, flags, seq and pid as they were; so every message built with
\* new and add_data has header.len = 16 + payload length, a multiple of 4 and
\* at least 16, and to_bytes of it does not panic and yields header.len
\* bytes.
C12_AddDataPadsAndCounts ==
    /\ [](\A i \in 1..Len(built) :
            /\ built[i].header.len = 16 + Len(built[i].data)
            /\ built[i].header.len % 4 = 0
            /\ built[i].header.len >= 16
            /\ NetlinkMessage_to_bytes(built[i]).kind = "Ok"
            /\ Len(NetlinkMessage_to_bytes(built[i]).val)
                 = built[i].header.len)
    /\ [][ (Len(built') = Len(built) /\ built' # built) =>
             LET old == built[Len(built)]
                 new == built'[Len(built)]
             IN  /\ SubSeq(built', 1, Len(built) - 1)
                      = SubSeq(built, 1, Len(built) - 1)
                 /\ \E d \in DataChoices :
                      /\ new.data = old.data \o d \o PadOf(Len(d))
                      /\ new.header.len
                           = old.header.len + Len(d) + Len(PadOf(Len(d)))
                 /\ new.header.typ = old.header.typ
                 /\ new.header.flags = old.header.flags
                 /\ new.header.seq = old.header.seq
                 /\ new.header.pid = old.header.pid
         ]_vars

\* a message after add_data of 1 byte and then of 6 bytes
C12_Witness ==
    /\ cpc = "build"
    /\ Len(built) = 1
    /\ built[1].data = <<7, 0, 0, 0, 1, 2, 3, 4, 5, 6, 0, 0>>
    /\ built[1].header.len = 28
    /\ built[1].header.typ = RTM_GETLINK

-----------------------------------------------------------------------------
(* Properties of the functions called on their own, checked under SpecUtil *)

\* the 16-bit and the 32-bit number at 0-based offset a of a buffer, lowest
\* byte first
Le16(v, a) == v[a + 1] + 256 * v[a + 2]
Le32(v, a) ==
    v[a + 1] + 256 * v[a + 2] + 65536 * v[a + 3] + 16777216 * v[a + 4]

\* the 16 bytes hold len, typ, flags, seq and pid of h in this order
LaidOut(v, h) ==
    /\ Len(v) = 16
    /\ \A i \in 1..16 : v[i] \in 0..255
    /\ Le32(v, 0) = h.len
    /\ Le16(v, 4) = h.typ
    /\ Le16(v, 6) = h.flags
    /\ Le32(v, 8) = h.seq
    /\ Le32(v, 12) = h.pid

\* C11 as stated: for a header with any values of len, typ, flags, seq and
\* pid, to_bytes yields the 16 bytes of the layout and from_bytes of them
\* yields the header.
C11_AnyHeaderRoundTrips ==
    /\ fn_call.fn = "NetlinkHeader::to_bytes"
          => (fn_ret.kind = "Ok" /\ LaidOut(fn_ret.val, fn_call.arg))
    /\ fn_call.fn = "NetlinkHeader::from_bytes"
          => (fn_ret.kind = "Ok" /\ fn_ret.val = fn_call.origin[1])

\* C11 as amended: for a header whose len is at least the size of a header,
\* with any typ, flags, seq and pid, to_bytes yields the 16 bytes of the
\* layout and from_bytes of them yields the header; for a smaller len
\* to_bytes panics.
C11_ValidHeaderRoundTrips ==
    /\ (fn_call.fn = "NetlinkHeader::to_bytes"
            /\ fn_call.arg.len < NetlinkHeader_size) => fn_ret.kind = "Panic"
    /\ (fn_call.fn = "NetlinkHeader::to_bytes"
            /\ fn_call.arg.len >= NetlinkHeader_size)
          => (fn_ret.kind = "Ok" /\ LaidOut(fn_ret.val, fn_call.arg))
    /\ fn_call.fn = "NetlinkHeader::from_bytes"
          => (fn_ret.kind = "Ok" /\ fn_ret.val = fn_call.origin[1])

\* a header with every field set came back from its bytes
C11_Witness ==
    /\ fn_call.fn = "NetlinkHeader::from_bytes"
    /\ fn_ret.kind = "Ok"
    /\ fn_ret.val.len = 17
    /\ fn_ret.val.typ = 65535
    /\ fn_ret.val.flags = NLM_F_DUMP + NLM_F_REQUEST
    /\ fn_ret.val.seq = 2147483647
    /\ fn_ret.val.pid = PortId

-----------------------------------------------------------------------------
(* Properties of the attribute builder, checked under SpecCodec *)

\* the bytes of tests::test_rtattr after its three add_data calls
TestAttrData ==
    <<18, 52, 86, 120, 1, 2, 3, 4, 5, 6, 0, 0, 7, 8, 9, 0>>

\* C13: add_data with k bytes appends them and align(k) - k zero bytes to the
\* value and adds align(k) to the stored length, leaving the type alone; an
\* attribute holding 4, then 4 + 6, then 4 + 6 + 3 appended bytes has length
\* 8, 16 and 20; to_bytes is the stored length and the type, two bytes each,
\* then the value as stored, and it has as many bytes as the stored length.
C13_AttrAddDataPadsAndCounts ==
    /\ [](\A i \in 1..Len(abuilt) :
            LET a == abuilt[i]
                b == RtAttr_to_bytes(a)
            IN  /\ Len(b) = a.header.len
                /\ Le16(b, 0) = a.header.len
                /\ Le16(b, 2) = a.header.typ
                /\ SubSeq(b, 5, Len(b)) = a.data
                /\ a.data = SubSeq(TestAttrData, 1, 4) => a.header.len = 8
                /\ a.data = SubSeq(TestAttrData, 1, 12) => a.header.len = 16
                /\ a.data = TestAttrData => a.header.len = 20)
    /\ []((cwhat = "attr" /\ cpc # "build" /\ Len(abuilt) = 1) =>
            cbuf = RtAttr_to_bytes(abuilt[1]))
    /\ [][ (Len(abuilt) = 1 /\ Len(abuilt') = 1 /\ abuilt' # abuilt) =>
             \E d \in AttrDataChoices :
                /\ abuilt'[1].data = abuilt[1].data \o d \o PadOf(Len(d))
                /\ abuilt'[1].header.len
                     = abuilt[1].header.len + Len(d) + Len(PadOf(Len(d)))
                /\ abuilt'[1].header.typ = abuilt[1].header.typ
         ]_vars

\* the attribute of tests::test_rtattr, encoded
C13_Witness ==
    /\ cwhat = "attr"
    /\ cpc = "decode"
    /\ Len(abuilt) = 1
    /\ abuilt[1].data = TestAttrData
    /\ abuilt[1].header = [len |-> 20, typ |-> 1]
    /\ cbuf = <<20, 0, 1, 0>> \o TestAttrData

\* C14: the attribute that RtAttr::new(typ, v) returns has stored length
\* 4 + |v|, and its to_bytes is the header, then v, then zero bytes up to
\* the next multiple of 4: align(4 + |v|) bytes.
C14_NewEncodesPadded ==
    [][ Len(abuilt') = Len(abuilt) + 1 =>
          LET a == abuilt'[Len(abuilt')]
              b == RtAttr_to_bytes(a)
          IN  \E typ \in AttrTypes, v \in AttrValues :
                /\ a.header.typ = typ
                /\ a.header.len = 4 + Len(v)
                /\ b = U16Bytes(4 + Len(v)) \o U16Bytes(typ) \o v
                         \o PadOf(Len(v))
                /\ Len(b) = align(4 + Len(v))
      ]_vars

\* the list of (type, value) pairs of a list of attributes
Pairs(as) == [i \in 1..Len(as) |-> <<as[i].header.typ, as[i].data>>]

\* C19: RtAttr::from_bytes of the concatenated to_bytes of attributes built
\* by RtAttr::new returns attributes with the same types and values in the
\* same order, and the empty buffer gives the empty list.
C19_EncodedAttrsDecodeToSame ==
    (cwhat = "attr" /\ cpc = "done") =>
        /\ cbuf = <<>> => cret = Ok(<<>>)
        /\ (abuilt # <<>> /\ \A i \in 1..Len(abuilt) :
                                abuilt[i].header.len = 4 + Len(abuilt[i].data)
                                /\ abuilt[i].data \in AttrValues) =>
              /\ cret.kind = "Ok"
              /\ Pairs(cret.val) = Pairs(abuilt)

\* what as_u32, as_u16 and as_bool are to return on the value v: invalid data
\* when v is shorter than 4, 2 and 1 bytes, otherwise the number in the
\* leading bytes (as_bool: whether the first byte is 1)
NumberOf(f, v) ==
    CASE f = "as_u32" ->
           IF Len(v) < 4 THEN Err("InvalidData") ELSE Ok(Le32(v, 0))
      [] f = "as_u16" ->
           IF Len(v) < 2 THEN Err("InvalidData") ELSE Ok(Le16(v, 0))
      [] f = "as_bool" ->
           IF Len(v) < 1 THEN Err("InvalidData") ELSE Ok(v[1] = 1)

\* the value ends in a zero byte
Terminated(v) == Len(v) > 0 /\ v[Len(v)] = 0

\* the value holds a zero byte before its last byte
InteriorZero(v) == \E i \in 1..(Len(v) - 1) : v[i] = 0

\* C15 as stated: on a decoded attribute the three numeric extractions fail
\* exactly on a value that is too short and otherwise return the number;
\* to_cstring fails when the value has no terminating zero byte and otherwise
\* returns the bytes before the terminator; none of them panics.
C15_ExtractionsAsStated ==
    fn_call.fn \in Extractions =>
        LET v == fn_call.arg.data
        IN  /\ fn_ret.kind # "Panic"
            /\ fn_call.fn # "to_cstring" => fn_ret = NumberOf(fn_call.fn, v)
            /\ fn_call.fn = "to_cstring" =>
                 fn_ret = IF Terminated(v)
                          THEN Ok(SubSeq(v, 1, Len(v) - 1))
                          ELSE Err("InvalidData")

\* C15, amended: as above, but to_cstring also fails with invalid data when
\* the value holds a zero byte before its last byte.
C15_ExtractionsInteriorZeroFails ==
    fn_call.fn \in Extractions =>
        LET v == fn_call.arg.data
        IN  /\ fn_ret.kind # "Panic"
            /\ fn_call.fn # "to_cstring" => fn_ret = NumberOf(fn_call.fn, v)
            /\ fn_call.fn = "to_cstring" =>
                 fn_ret = IF Terminated(v) /\ ~InteriorZero(v)
                          THEN Ok(SubSeq(v, 1, Len(v) - 1))
                          ELSE Err("InvalidData")

\* to_cstring on a decoded attribute whose value is a text with an interior
\* zero byte, and as_u32 on a decoded 3-byte value
C15_Witness ==
    \/ /\ fn_call.fn = "to_cstring"
       /\ fn_call.arg.data = <<101, 0, 102, 0>>
       /\ fn_ret = Err("InvalidData")
    \/ /\ fn_call.fn = "as_u32"
       /\ Len(fn_call.arg.data) = 3
       /\ fn_ret = Err("InvalidData")

-----------------------------------------------------------------------------
(* The handle of the session, checked under Spec *)

\* C16: every handle that socket(2) returned to the session is closed once
\* when the session is torn down, whether bind failed in new or exec calls
\* succeeded or failed before; no handle is closed twice, and no send or
\* receive is issued after the close.
C16_OpenedHandleClosedOnce ==
    /\ [](closes <= Len(opened))
    /\ [](pc = "dropped" => closes = Len(opened))
    /\ [][closes > 0 => (nsend' = nsend /\ nrecv' = nrecv)]_vars

-----------------------------------------------------------------------------
(* The link record, checked under SpecUtil *)

\* the variant LinkType::from_attrs selects for the kind and its attributes
VariantOf(kind, with_data) ==
    LinkType_from_attrs(
        kind,
        IF with_data THEN RtAttr_from_bytes(KindData(kind), TRUE).val
                     ELSE <<>>).val

\* C18: the record that LinkMsg::from_message builds from a message whose
\* link-info container holds a kind text carries the variant of that kind
\* (Bridge, Dummy, Veth, Vlan, with the kind's own attributes decoded), and
\* the Unknown variant, with an Ok result, when the kind is none of these.
C18_KindSelectsVariant ==
    (fn_call.fn = "LinkMsg::from_message" /\ fn_call.origin[1].text) =>
        LET kind == fn_call.origin[1].kind
        IN  /\ fn_ret.kind = "Ok"
            /\ fn_ret.val.kind = Some(kind)
            /\ fn_ret.val.specific
                 = VariantOf(kind, fn_call.origin[1].data)
            /\ kind = KindBridge => fn_ret.val.specific.tag = "Bridge"
            /\ kind = KindDummy => fn_ret.val.specific.tag = "Dummy"
            /\ kind = KindVeth => fn_ret.val.specific.tag = "Veth"
            /\ kind = KindVlan => fn_ret.val.specific.tag = "Vlan"
            /\ kind \notin {KindBridge, KindDummy, KindVeth, KindVlan} =>
                 fn_ret.val.specific.tag = "Unknown"

-----------------------------------------------------------------------------
(* Oversize datagrams, checked under SpecUtil *)

\* C20: when the read delivers only the first RECEIVE_BUFFER_SIZE bytes of a
\* larger datagram, recv fails with a truncation error, wherever the cut
\* falls: it never returns messages of a datagram from which others were
\* cut off.
C20_CutDatagramIsRejected ==
    (fn_call.fn = "recv"
        /\ fn_call.arg.read_size < fn_call.arg.datagram_size) =>
            fn_ret = Err("UnexpectedEof")

-----------------------------------------------------------------------------
(* Failures inside exec, checked under Spec *)

\* C21: one exec call sends its request at most once; a failed send, a
\* failed port-id query, a failed read and a received buffer that does not
\* decode (one shorter than a header included) each end the call in that
\* step with that failure, which carries none of the accumulated messages,
\* and a call that has ended reads and sends nothing more.
C21_FirstFailureEndsTheCall ==
    /\ [](nsend <= 1)
    /\ [][ /\ nsend' > nsend => (pc = "idle" /\ nsend' = 1)
           /\ (pc = "idle" /\ nsend' > nsend /\ pc' # "sent") =>
                 (pc' = "done" /\ ret'.kind = "Err" /\ ret'.val = NoVal
                    /\ nrecv' = 0)
           /\ (pc = "sent" /\ pc' # "recv") =>
                 (pc' = "done" /\ ret'.kind = "Err" /\ ret'.val = NoVal
                    /\ nrecv' = 0)
           /\ (pc = "recv" /\ nrecv' > nrecv /\ sock = <<>>) =>
                 (pc' = "done" /\ ret' \in {OsErr(e) : e \in LastOsErrors})
           /\ (pc = "recv" /\ nrecv' > nrecv /\ sock # <<>>
                  /\ Len(Head(sock)) < NetlinkHeader_size) =>
                 (pc' = "done" /\ ret' = Err("UnexpectedEof"))
           /\ (pc = "recv" /\ nrecv' > nrecv /\ sock # <<>>) =>
                 \E overflow_checks \in BOOLEAN :
                    LET msgs == recv_decode(recv_read(Head(sock)),
                                            overflow_checks)
                    IN  /\ msgs.kind # "Ok" => (pc' = "done" /\ ret' = msgs)
                        /\ msgs.kind = "Ok" => ret' = Pending
           /\ pc = "done" =>
                 (nrecv' <= nrecv /\ nsend' <= nsend /\ sock' = sock)
         ]_vars

\* a read fails after two frames were accumulated, and a datagram shorter
\* than a header arrives after one was
C21_Witness ==
    /\ pc = "done"
    /\ ret.kind = "Err"
    /\ nsend = 1
    /\ \/ ret.err = "Os" /\ Len(out) = 2 /\ nrecv = 2
       \/ ret = Err("UnexpectedEof") /\ Len(out) = 1 /\ nrecv = 2
            /\ Len(seen) = 1

-----------------------------------------------------------------------------
(* Frames left over by an exec call, checked under Spec *)

\* C22: when exec returns success, every frame the kernel sent with the
\* request's sequence number has been examined (none is left on the socket
\* or dropped with the rest of a buffer), and no exec call fails with a
\* sequence-number mismatch on a frame of an earlier request of the session.
C22_NoFrameLeftBehind ==
    /\ (pc = "done" /\ ret.kind = "Ok") =>
          \A i \in (Len(seen) + 1)..Len(ksent) :
              ksent[i].header.seq # request.header.seq
    /\ (pc = "done" /\ IsErr(ret, "InvalidData") /\ seen # <<>>) =>
          Last(seen).header.seq >= request.header.seq

-----------------------------------------------------------------------------
(* The accumulated result, checked under Spec *)

\* C24: at every point of exec's loop each accumulated message carries the
\* request's sequence number and the session's port id, is neither an
\* ack/error frame nor a dump-terminator, has the filter's type when a
\* filter was given, and carries the multipart flag unless it is the last.
C24_AccumulatedAreValidated ==
    \A i \in 1..Len(out) :
        /\ out[i].header.seq = request.header.seq
        /\ out[i].header.pid = pid
        /\ out[i].header.typ \notin {NLMSG_ERROR, NLMSG_DONE}
        /\ resp_typ # <<>> => out[i].header.typ = resp_typ[1]
        /\ i < Len(out) => Multipart(out[i])

\* exec is about to receive again with three messages accumulated under a
\* filter, after frames of another type were skipped
C24_Witness ==
    /\ pc = "recv"
    /\ Len(out) = 3
    /\ resp_typ = <<RTM_NEWLINK>>
    /\ Len(seen) = 4

\* C26: a frame that passed the sequence and port-id checks, has the
\* ack/error type and carries fewer than 4 bytes of payload makes exec fail
\* with UnexpectedEof in that step: it is not taken for success, yields no OS
\* error code and is not added to the result.
C26_ShortAckIsTruncation ==
    [][ (pc = "frames" /\ resps # <<>> /\ Answers(Head(resps))
            /\ Head(resps).header.typ = NLMSG_ERROR
            /\ Len(Head(resps).data) < 4) =>
          /\ pc' = "done"
          /\ ret' = Err("UnexpectedEof")
          /\ out' = out
      ]_vars

\* an ack/error frame without payload ends a call that had accumulated a
\* message
C26_Witness ==
    /\ pc = "done"
    /\ ret = Err("UnexpectedEof")
    /\ seen # <<>>
    /\ Answers(Last(seen))
    /\ Last(seen).header.typ = NLMSG_ERROR
    /\ Len(Last(seen).data) < 4
    /\ out # <<>>

-----------------------------------------------------------------------------
(* Termination of the decoders, checked under SpecCodecFair *)

\* C25: every turn of the loop of NetlinkMessage::from_bytes and of
\* RtAttr::from_bytes either ends the call or moves the offset forward, also
\* on a buffer whose declared length is zero or below the header size; the
\* offset stays within an alignment of the end of the buffer, and the call
\* ends.
C25_DecodersTerminate ==
    /\ [][cpc = "decode" =>
            (cpc' = "done" \/ (cpc' = "decode" /\ cidx' > cidx))]_vars
    /\ [](cpc = "decode" => (cidx >= 0 /\ cidx < Len(cbuf) + RTA_ALIGNTO))
    /\ (cpc = "decode") ~> (cpc = "done")

\* from_bytes has ended on a buffer whose second message declares a length
\* below the size of a header, after a turn that moved the offset to it
C25_Witness ==
    /\ cpc = "done"
    /\ cwhat = "msg"
    /\ cidx > 0
    /\ Len(cres) = 1
    /\ Len(cbuf) >= cidx + NetlinkHeader_size
    /\ Le32(cbuf, cidx) < NetlinkHeader_size
    /\ cret.kind # "Pending"

-----------------------------------------------------------------------------
(* exec returns, checked under SpecFair *)

\* an ack/error frame, a dump-terminator, or a message without the multipart
\* flag
ClosesReply(f) == Reserved(f) \/ ~Multipart(f)

\* The reply to the request is complete and delivered: every frame the kernel
\* sent carries the request's sequence number and the session's port id, the
\* last one closes the reply, and exec has examined or holds the first of
\* them while the socket holds the rest and nothing else
Delivered ==
    /\ pc \in {"recv", "frames"}
    /\ ksent # <<>>
    /\ \A i \in 1..Len(ksent) : Answers(ksent[i])
    /\ ClosesReply(Last(ksent))
    /\ LET have == seen \o resps
       IN  /\ Len(have) <= Len(ksent)
           /\ have = SubSeq(ksent, 1, Len(have))
           /\ Concat(sock) = DatagramOf(SubSeq(ksent, Len(have) + 1, Len(ksent)))

\* C23: once a finite reply whose frames all carry the request's sequence
\* number and the session's port id, and whose last frame is an ack/error
\* frame, a dump-terminator or a message without the multipart flag, is
\* delivered, exec returns, whatever the type filter.
C23_ExecReturns == Delivered ~> (pc = "done")

=============================================================================
